---- MODULE Spec2Model ----
(***************************************************************************)
(* Model of the story generation pipeline of Vecerni-Pohadka:              *)
(* generateStoryWithImage in src/services/geminiService.ts.                *)
(*                                                                         *)
(* One action per segment of the async function between two awaits: the    *)
(* code between two awaits runs without interruption, so each segment is   *)
(* one atomic step whose input is the settlement of the awaited promise.   *)
(* Strings whose content matters (scene texts, the story) are sequences of *)
(* one-character strings; array indices are 1-based here, 0-based in the   *)
(* source (the loop variable i keeps the source's 0-based value).          *)
(***************************************************************************)
EXTENDS Integers, Sequences, FiniteSets, TLC

VARIABLES
    pc,            \* position of the run: which await it is suspended at
    formData,      \* argument formData (only storyLength steers control flow)
    numScenes,     \* const numScenes
    totalWords,    \* const totalWords
    currentStep,   \* let currentStep
    totalSteps,    \* const totalSteps
    storyData,     \* what the text response carried (JSON.parse result)
    scenes,        \* const scenes = storyData.scenes
    story,         \* const story
    imageUrls,     \* const imageUrls (array, pushed to)
    i,             \* loop variable of the image loop (0-based)
    result,        \* the value the promise resolved with, when pc = "done"
    error,         \* the value the promise rejected with, when pc = "failed"
    events,        \* every ProgressUpdate delivered to onProgress, in order
    calls,         \* every provider request of the run, in order, with the
                   \* class of the reply it got
    prevRun,       \* how the invocation before this one ended (a history)
    form,          \* App: useState form (name as "is it filled in")
    childPhoto,    \* App: useState childPhoto (is a file chosen)
    isLoading,     \* App: useState isLoading
    appResult,     \* App: useState result
    appError,      \* App: useState error
    progress,      \* App: useState progress
    timerRef,      \* App: is the interval of timerRef.current running
    inFlight,      \* App: calls of generateStoryWithImage not yet settled
    isPlaying,     \* App: useState isPlaying
    audioContext,  \* App: audioRef.current.context: "none", "running", "closed"
    audioSource,   \* App: audioRef.current.source: a source, or 0 for null
    playing,       \* the sources that are started and were not stopped
    endedQueue     \* the sources whose ended event waits to be delivered

runVars == <<pc, formData, numScenes, totalWords, currentStep, totalSteps,
             storyData, scenes, story, imageUrls, i, result, error, events, calls>>

appVars == <<form, childPhoto, isLoading, appResult, appError, progress,
             timerRef, inFlight>>

audioVars == <<isPlaying, audioContext, audioSource, playing, endedQueue>>

vars == <<runVars, prevRun, appVars, audioVars>>

----------------------------------------------------------------------------
(* Bounds of the model                                                     *)

\* a scene text has at most this many characters
MaxSceneLen == 1
\* the text response may miss or exceed the requested scene count by this
MaxSurplus == 1
\* an image or audio response carries at most this many content parts
MaxParts == 2
\* at most this many audio sources are alive at a time: playing, waiting
\* for their ended event, or held by audioRef
MaxSources == 2

----------------------------------------------------------------------------
(* JavaScript values                                                       *)

\* the value read from a property that does not exist (undefined), as a number
Undefined == -1
\* undefined + 2
NaN == -2

\* the inline data read through an optional chain that found nothing
UndefinedData == [undefined |-> TRUE]

\* the separator of scenes.join('\n\n')
Separator == <<"\n", "\n">>

----------------------------------------------------------------------------
(* Plan resolution                                                         *)

\* the keys of the lengthOptions literal
OwnKeys == {"5", "10", "15", "20"}

\* property names every object literal inherits from Object.prototype
InheritedKeys == {"constructor", "toString"}

\* the storyLength values of the model: the four options of the form, two
\* strings that name nothing, and two names of inherited properties
StoryLengths == OwnKeys \cup {"", "30"} \cup InheritedKeys

lengthOptions ==
    [k \in OwnKeys |->
        CASE k = "5"  -> [scenes |-> 6,  words |-> 400]
          [] k = "10" -> [scenes |-> 8,  words |-> 800]
          [] k = "15" -> [scenes |-> 10, words |-> 1200]
          [] k = "20" -> [scenes |-> 12, words |-> 1600]]

\* lengthOptions[key] || lengthOptions['5']: an own key reads its entry, an
\* inherited name reads a function of Object.prototype (truthy, so the default
\* is not taken, and its .scenes and .words are undefined), any other key
\* reads undefined and takes the default
selectedLength(key) ==
    IF key \in OwnKeys THEN lengthOptions[key]
    ELSE IF key \in InheritedKeys THEN [scenes |-> Undefined, words |-> Undefined]
    ELSE lengthOptions["5"]

\* numScenes + 2
TotalStepsOf(n) == IF n = Undefined THEN NaN ELSE n + 2

----------------------------------------------------------------------------
(* Provider responses: the inputs of the run                               *)

\* the payload of the ord-th inline part of the reply to one request
Payload(src, scene, attempt, ord) ==
    [src |-> src, scene |-> scene, attempt |-> attempt, ord |-> ord]

\* a content part that carries text, and one that carries inline data
TextPart == [inline |-> FALSE, data |-> UndefinedData]
InlinePart(d) == [inline |-> TRUE, data |-> d]

\* which parts of a response carry inline data
PartShapes == UNION {[1..n -> BOOLEAN] : n \in 0..MaxParts}

PartsOf(shape, src, scene, attempt) ==
    [k \in 1..Len(shape) |->
        IF shape[k]
        THEN InlinePart(Payload(src, scene, attempt,
                                Cardinality({m \in 1..k : shape[m]})))
        ELSE TextPart]

\* what a generateContent call for an image or for the audio can settle with:
\* a rejection, a response without candidates, a candidate without content,
\* content without parts, or content parts
ContentResponses(src, scene, attempt) ==
    {[kind |-> k, parts |-> <<>>] :
        k \in {"reject", "noCandidates", "noContent", "noParts"}}
    \cup {[kind |-> "parts", parts |-> PartsOf(sh, src, scene, attempt)] :
            sh \in PartShapes}

\* the text of scene j in variant v of a text response
SceneText(j, v) ==
    [p \in 1..((j + v) % (MaxSceneLen + 1)) |-> IF v = 0 THEN "a" ELSE "\n"]

SceneVariants == {0, 1}

\* the scene counts a text response may carry when n scenes were asked for
SceneCounts(n) ==
    LET b == IF n = Undefined THEN lengthOptions["5"].scenes ELSE n
    IN  {0} \cup ((b - MaxSurplus)..(b + MaxSurplus))

\* what the text call can settle with: a rejection, a text that is no JSON,
\* the JSON null, an object without scenes, an object whose scenes is a
\* string, an object whose scenes is an array of strings
TextResponses(n) ==
    {[kind |-> k, items |-> <<>>] : k \in {"reject", "badjson", "null", "noscenes"}}
    \cup {[kind |-> "string", items |-> [p \in 1..c |-> "a"]] : c \in SceneCounts(n)}
    \cup {[kind |-> "array", items |-> [j \in 1..c |-> SceneText(j, v)]] :
            c \in SceneCounts(n), v \in SceneVariants}

\* the class of a reply, as recorded in the log of calls (a history of the
\* run; the code does not read it)
TextReplyClass(resp, n) ==
    CASE resp.kind = "reject" -> "rejected"
      [] resp.kind \in {"badjson", "null", "noscenes", "string"} -> resp.kind
      [] OTHER -> IF Len(resp.items) = n THEN "ok" ELSE "badcount"

ReplyClass(resp) ==
    CASE resp.kind = "reject" -> "rejected"
      [] resp.kind # "parts" -> "empty"
      [] \E k \in 1..Len(resp.parts) : resp.parts[k].inline -> "inline"
      [] OTHER -> "noinline"

AudioReplyClass(resp) ==
    IF ReplyClass(resp) = "inline" /\ ~resp.parts[1].inline
    THEN "inlineLater" ELSE ReplyClass(resp)

----------------------------------------------------------------------------
(* The run as a record of its locals, and the code's steps as functions    *)

Cur == [pc |-> pc, formData |-> formData, numScenes |-> numScenes,
        totalWords |-> totalWords, currentStep |-> currentStep,
        totalSteps |-> totalSteps, storyData |-> storyData, scenes |-> scenes,
        story |-> story, imageUrls |-> imageUrls, i |-> i, result |-> result,
        error |-> error, events |-> events, calls |-> calls]

Set(s) ==
    /\ pc' = s.pc /\ formData' = s.formData /\ numScenes' = s.numScenes
    /\ totalWords' = s.totalWords /\ currentStep' = s.currentStep
    /\ totalSteps' = s.totalSteps /\ storyData' = s.storyData
    /\ scenes' = s.scenes /\ story' = s.story /\ imageUrls' = s.imageUrls
    /\ i' = s.i /\ result' = s.result /\ error' = s.error
    /\ events' = s.events /\ calls' = s.calls

NoStoryData == [kind |-> "none", items |-> <<>>]
NoResult == [returned |-> FALSE]
NoError == "none"

\* the errors the code raises itself, named for their messages
TextGenerationError == "Generovani pribehu selhalo, nebylo vytvoreno N scen."
ImageGenerationError == "Bohuzel se nepodarilo vytvorit obrazek pro jednu ze scen."
ImagePayloadMissingError == "V odpovedi pro jednu ze scen nebyla nalezena zadna obrazova data."
ImageCountError == "Generovani obrazku selhalo, nebylo vytvoreno N obrazku."

\* Throw with a catch block that raises a new error of its own
ThrowWrapped(s, e) == [s EXCEPT !.pc = "failed", !.error = "Error generating story"]

\* Throw with a catch block that logs and returns what was produced so far
ThrowSwallowed(s, e) ==
    [s EXCEPT !.pc = "done", !.error = e,
              !.result = [returned |-> TRUE, story |-> s.story,
                          scenes |-> s.scenes, imageUrls |-> s.imageUrls,
                          audioBase64 |-> UndefinedData]]

\* catch (error) { console.error(...); throw error; }
Throw(s, e) == [s EXCEPT !.pc = "failed", !.error = e]

\* onProgress({ step: currentStep, totalSteps, message })
onProgress(s, id, n) ==
    [s EXCEPT !.events = Append(@, [step |-> s.currentStep,
                                    totalSteps |-> s.totalSteps,
                                    message |-> [id |-> id, n |-> n]])]

\* updateProgress without the increment
updateProgressStale(s, id, n) == onProgress(s, id, n)

\* updateProgress(message): currentStep++, then onProgress
updateProgress(s, id, n) ==
    onProgress([s EXCEPT !.currentStep = @ + 1], id, n)

\* ai.models.generateContent(...) up to its await: the request is issued
Request(s, req, at) ==
    [s EXCEPT !.calls = Append(@, req), !.pc = at]

\* the settlement of the awaited call, noted in the log
Replied(s, class) ==
    [s EXCEPT !.calls = [@ EXCEPT ![Len(@)].reply = class]]

\* ImageRequest that always illustrates the first scene
ImageRequestFirstScene(idx, photo) ==
    [kind |-> "image", scene |-> 0, photo |-> photo, reply |-> "pending"]

TextRequest(n, w) ==
    [kind |-> "text", scenes |-> n, words |-> w, reply |-> "pending"]
ImageRequest(idx, photo) ==
    [kind |-> "image", scene |-> idx, photo |-> photo, reply |-> "pending"]
AudioRequest(text) ==
    [kind |-> "audio", text |-> text, reply |-> "pending"]

----------------------------------------------------------------------------
(* The code's decisions and computations                                   *)

\* SceneCountOk with the comparison weakened to "at least n scenes"
SceneCountAtLeast(d, n) ==
    /\ d.kind \in {"string", "array"}
    /\ ~(d.kind = "string" /\ d.items = <<>>)
    /\ Len(d.items) >= n

\* the negation of (!scenes || scenes.length !== numScenes): scenes is
\* absent when the object has no such property, falsy when it is the empty
\* string; an empty array is truthy
SceneCountOk(d, n) ==
    /\ d.kind \in {"string", "array"}
    /\ ~(d.kind = "string" /\ d.items = <<>>)
    /\ Len(d.items) = n

\* join with a single line break between the scenes, whatever sep is
RECURSIVE joinSingleBreak(_, _)
joinSingleBreak(arr, sep) ==
    IF arr = <<>> THEN <<>>
    ELSE IF Len(arr) = 1 THEN arr[1]
    ELSE arr[1] \o <<"\n">> \o joinSingleBreak(Tail(arr), sep)

\* scenes.join(sep)
RECURSIVE join(_, _)
join(arr, sep) ==
    IF arr = <<>> THEN <<>>
    ELSE IF Len(arr) = 1 THEN arr[1]
    ELSE arr[1] \o sep \o join(Tail(arr), sep)

\* candidate?.content?.parts is there
HasParts(resp) == resp.kind = "parts"

\* NeedsFallback with the condition inverted
NeedsFallbackInverted(resp) == HasParts(resp)

\* the condition of the retry without the photo
NeedsFallback(resp) == ~HasParts(resp)

\* FirstInline without the break: the last part with inline data wins
LastInline(parts) ==
    IF \E k \in 1..Len(parts) : parts[k].inline
    THEN CHOOSE k \in 1..Len(parts) :
            parts[k].inline /\ \A m \in (k + 1)..Len(parts) : ~parts[m].inline
    ELSE 0

\* for (const part of parts) if (part.inlineData) { ...; break }: the index
\* of the part the loop stops at, 0 when it runs to the end
FirstInline(parts) ==
    IF \E k \in 1..Len(parts) : parts[k].inline
    THEN CHOOSE k \in 1..Len(parts) :
            parts[k].inline /\ \A m \in 1..(k - 1) : ~parts[m].inline
    ELSE 0

\* `data:image/png;base64,${base64ImageBytes}`
DataUrl(d) == [mime |-> "image/png", base64 |-> d]

\* LoopContinues that leaves the loop one scene early
LoopContinuesShort(idx, scs) == idx < Len(scs) - 1

\* i < scenes.length
LoopContinues(idx, scs) == idx < Len(scs)

\* the negation of (imageUrls.length !== numScenes)
ImageCountOk(urls, n) == Len(urls) = n

\* audioResponse.candidates?.[0]?.content?.parts?.[0]?.inlineData?.data
AudioData(resp) ==
    IF resp.kind = "parts" /\ Len(resp.parts) >= 1 /\ resp.parts[1].inline
    THEN resp.parts[1].data
    ELSE UndefinedData

\* StoryResult keeping three images, as the comments of the StoryResult
\* interface still say
StoryResultThreeImages(st, scs, urls, audio) ==
    [returned |-> TRUE, story |-> st, scenes |-> scs,
     imageUrls |-> SubSeq(urls, 1, 3), audioBase64 |-> audio]

\* return { story, scenes, imageUrls, audioBase64 }
StoryResult(st, scs, urls, audio) ==
    [returned |-> TRUE, story |-> st, scenes |-> scs, imageUrls |-> urls,
     audioBase64 |-> audio]

----------------------------------------------------------------------------
(* The segments of generateStoryWithImage                                  *)

\* after the image loop: the count check, then the audio request
AfterLoop(s) ==
    IF ~ImageCountOk(s.imageUrls, s.numScenes)
    THEN Throw(s, ImageCountError)
    ELSE Request(onProgress(s, "narrating", 0), AudioRequest(s.story), "awaitAudio")

\* ImageLoop that issues the conditioned request of the scene after the next
\* one together with the next one's
ImageLoopPrefetch(s) ==
    IF LoopContinues(s.i, s.scenes)
    THEN LET first == Request(onProgress(s, "painting", s.i + 1),
                              ImageRequest(s.i, TRUE), "awaitImage")
         IN  IF LoopContinues(s.i + 1, s.scenes)
             THEN Request(first, ImageRequest(s.i + 1, TRUE), "awaitImage")
             ELSE first
    ELSE AfterLoop(s)

\* the head of the image loop: the next scene's conditioned request, or the
\* code after the loop
ImageLoop(s) ==
    IF LoopContinues(s.i, s.scenes)
    THEN Request(onProgress(s, "painting", s.i + 1),
                 ImageRequest(s.i, TRUE), "awaitImage")
    ELSE AfterLoop(s)

\* StoreImage that puts the new image in front of the others
StoreImageUnshift(s, resp) ==
    IF ~HasParts(resp)
    THEN Throw(s, ImageGenerationError)
    ELSE LET k == FirstInline(resp.parts)
         IN  IF k = 0
             THEN Throw(s, ImagePayloadMissingError)
             ELSE LET pushed == [s EXCEPT !.imageUrls =
                                    <<DataUrl(resp.parts[k].data)>> \o @]
                      told == updateProgress(pushed, "illustrated", s.i + 1)
                  IN  ImageLoop([told EXCEPT !.i = @ + 1])

\* StoreImage that skips a scene whose response has no inline part and goes
\* on with the next scene
StoreImageSkipping(s, resp) ==
    IF ~HasParts(resp)
    THEN Throw(s, ImageGenerationError)
    ELSE LET k == FirstInline(resp.parts)
         IN  IF k = 0
             THEN ImageLoop([s EXCEPT !.i = @ + 1])
             ELSE LET pushed == [s EXCEPT !.imageUrls =
                                    Append(@, DataUrl(resp.parts[k].data))]
                      told == updateProgress(pushed, "illustrated", s.i + 1)
                  IN  ImageLoop([told EXCEPT !.i = @ + 1])

\* the rest of the loop body once candidate is final
StoreImage(s, resp) ==
    IF ~HasParts(resp)
    THEN Throw(s, ImageGenerationError)
    ELSE LET k == FirstInline(resp.parts)
         IN  IF k = 0
             THEN Throw(s, ImagePayloadMissingError)
             ELSE LET pushed == [s EXCEPT !.imageUrls =
                                    Append(@, DataUrl(resp.parts[k].data))]
                      told == updateProgress(pushed, "illustrated", s.i + 1)
                  IN  ImageLoop([told EXCEPT !.i = @ + 1])

\* StartRun with the step counter kept outside the function, so that it
\* goes on from where the invocation before left it
StartRunResuming(sl) ==
    LET sel == selectedLength(sl)
        s0 == [pc |-> "start", formData |-> [storyLength |-> sl],
               numScenes |-> sel.scenes, totalWords |-> sel.words,
               currentStep |-> currentStep, totalSteps |-> TotalStepsOf(sel.scenes),
               storyData |-> NoStoryData, scenes |-> <<>>, story |-> <<>>,
               imageUrls |-> <<>>, i |-> 0, result |-> NoResult,
               error |-> NoError, events |-> <<>>, calls |-> <<>>]
    IN  Request(onProgress(s0, "plot", 0),
                TextRequest(s0.numScenes, s0.totalWords), "awaitText")

\* from the call to the await of the text request
StartRun(sl) ==
    LET sel == selectedLength(sl)
        s0 == [pc |-> "start", formData |-> [storyLength |-> sl],
               numScenes |-> sel.scenes, totalWords |-> sel.words,
               currentStep |-> 0, totalSteps |-> TotalStepsOf(sel.scenes),
               storyData |-> NoStoryData, scenes |-> <<>>, story |-> <<>>,
               imageUrls |-> <<>>, i |-> 0, result |-> NoResult,
               error |-> NoError, events |-> <<>>, calls |-> <<>>]
    IN  Request(onProgress(s0, "plot", 0),
                TextRequest(s0.numScenes, s0.totalWords), "awaitText")

\* from the text response to the await of fileToBase64
AfterText(s, resp) ==
    LET r == Replied(s, TextReplyClass(resp, s.numScenes))
    IN  CASE resp.kind = "reject" -> Throw(r, "ProviderError")
          [] resp.kind = "badjson" -> Throw(r, "SyntaxError")
          [] resp.kind = "null" -> Throw(r, "TypeError")
          [] OTHER ->
               LET told == updateProgress(
                               [r EXCEPT !.storyData = resp, !.scenes = resp.items],
                               "written", 0)
               IN  IF ~SceneCountOk(resp, s.numScenes)
                   THEN Throw(told, TextGenerationError)
                   ELSE IF resp.kind # "array"
                   THEN Throw(told, "TypeError")
                   ELSE [told EXCEPT !.story = join(resp.items, Separator),
                                     !.pc = "awaitPhoto"]

\* from the settlement of fileToBase64 to the first image request
AfterPhoto(s, ok) ==
    IF ~ok THEN Throw(s, "FileReadError")
    ELSE ImageLoop([s EXCEPT !.imageUrls = <<>>, !.i = 0])

\* AfterImage that reports to onProgress before it retries without the photo
AfterImageAnnouncing(s, resp) ==
    LET r == Replied(s, ReplyClass(resp))
    IN  IF resp.kind = "reject" THEN Throw(r, "ProviderError")
        ELSE IF NeedsFallback(resp)
        THEN Request(onProgress(r, "painting", s.i + 1),
                     ImageRequest(s.i, FALSE), "awaitFallback")
        ELSE StoreImage(r, resp)

\* AfterImage that issues the request without the photo twice
AfterImageDoubleFallback(s, resp) ==
    LET r == Replied(s, ReplyClass(resp))
    IN  IF resp.kind = "reject" THEN Throw(r, "ProviderError")
        ELSE IF NeedsFallback(resp)
        THEN Request(Request(r, ImageRequest(s.i, FALSE), "awaitFallback"),
                     ImageRequest(s.i, FALSE), "awaitFallback")
        ELSE StoreImage(r, resp)

\* from the reply to the conditioned request to the next await
AfterImage(s, resp) ==
    LET r == Replied(s, ReplyClass(resp))
    IN  IF resp.kind = "reject" THEN Throw(r, "ProviderError")
        ELSE IF NeedsFallback(resp)
        THEN Request(r, ImageRequest(s.i, FALSE), "awaitFallback")
        ELSE StoreImage(r, resp)

\* AfterFallback that remembers the photo was refused: the request of the
\* next scene leaves the photo out
AfterFallbackSticky(s, resp) ==
    LET r == Replied(s, ReplyClass(resp))
    IN  IF resp.kind = "reject" THEN Throw(r, "ProviderError")
        ELSE LET n == StoreImage(r, resp)
             IN  IF n.pc = "awaitImage"
                 THEN [n EXCEPT !.calls = [@ EXCEPT ![Len(@)].photo = FALSE]]
                 ELSE n

\* from the reply to the request without the photo to the next await
AfterFallback(s, resp) ==
    LET r == Replied(s, ReplyClass(resp))
    IN  IF resp.kind = "reject" THEN Throw(r, "ProviderError")
        ELSE StoreImage(r, resp)

\* AfterAudio that treats a missing audio payload as an error
AfterAudioRequired(s, resp) ==
    LET r == Replied(s, AudioReplyClass(resp))
    IN  IF resp.kind = "reject" THEN Throw(r, "ProviderError")
        ELSE IF AudioData(resp) = UndefinedData THEN Throw(r, "AudioError")
        ELSE LET told == updateProgress(r, "ready", 0)
             IN  [told EXCEPT !.pc = "done",
                              !.result = StoryResult(told.story, told.scenes,
                                                     told.imageUrls, AudioData(resp))]

\* from the audio reply to the return
AfterAudio(s, resp) ==
    LET r == Replied(s, AudioReplyClass(resp))
    IN  IF resp.kind = "reject" THEN Throw(r, "ProviderError")
        ELSE LET told == updateProgress(r, "ready", 0)
             IN  [told EXCEPT !.pc = "done",
                              !.result = StoryResult(told.story, told.scenes,
                                                     told.imageUrls, AudioData(resp))]

----------------------------------------------------------------------------
(* The App's state (src/App.tsx)                                           *)

\* useState<StoryFormData>: name stands for "the name field is not empty"
InitialForm == [name |-> FALSE, storyLength |-> "5"]

\* useState<ProgressUpdate | null>(null)
NoProgress == [step |-> Undefined, totalSteps |-> Undefined,
               message |-> [id |-> "null", n |-> 0]]

\* the messages handleSubmit sets itself
NoPhotoMessage == "Prosim, nahrajte fotku sveho ditete."
UnknownErrorMessage == "Vyskytla se neznama chyba. Zkuste to prosim znovu."

AppCur == [form |-> form, childPhoto |-> childPhoto, isLoading |-> isLoading,
           appResult |-> appResult, appError |-> appError,
           progress |-> progress, timerRef |-> timerRef, inFlight |-> inFlight]

AppSet(a) ==
    /\ form' = a.form /\ childPhoto' = a.childPhoto /\ isLoading' = a.isLoading
    /\ appResult' = a.appResult /\ appError' = a.appError
    /\ progress' = a.progress /\ timerRef' = a.timerRef /\ inFlight' = a.inFlight

\* {isLoading ? renderLoading() : (result ? renderResult() : renderForm())}
View == IF isLoading THEN "loading" ELSE IF appResult.returned THEN "result" ELSE "form"

\* disabled={isLoading || !childPhoto || !form.name}
SubmitDisabled == isLoading \/ ~childPhoto \/ ~form.name

\* err instanceof Error: fileToBase64 rejects with the event its FileReader
\* passed to onerror, which is no Error; the errors thrown by the code, by
\* JSON.parse, by a property read and by the provider client are
IsErrorInstance(e) == e # "FileReadError"

\* submitted that leaves out setIsLoading(true)
submittedNotLoading(a, first) ==
    [a EXCEPT !.appError = NoError, !.appResult = NoResult,
              !.progress = first, !.timerRef = TRUE, !.inFlight = @ + 1]

\* handleSubmit, once the photo is there, up to its await: the state
\* setters, the interval, and the call of generateStoryWithImage, whose
\* first onProgress (setProgress) replaces the progress set just before
submitted(a, first) ==
    [a EXCEPT !.appError = NoError, !.isLoading = TRUE, !.appResult = NoResult,
              !.progress = first, !.timerRef = TRUE, !.inFlight = @ + 1]

\* onProgress is setProgress
progressed(a, ev) == [a EXCEPT !.progress = ev]

\* handleSubmit after the await: setResult, then the finally block
resolved(a, res) ==
    [a EXCEPT !.appResult = res, !.isLoading = FALSE, !.timerRef = FALSE,
              !.progress = NoProgress, !.inFlight = @ - 1]

\* rejected without the finally block
rejectedNoFinally(a, e) ==
    [a EXCEPT !.appError = IF IsErrorInstance(e) THEN e ELSE UnknownErrorMessage,
              !.inFlight = @ - 1]

\* handleSubmit after the await: the catch block, then the finally block
rejected(a, e) ==
    [a EXCEPT !.appError = IF IsErrorInstance(e) THEN e ELSE UnknownErrorMessage,
              !.isLoading = FALSE, !.timerRef = FALSE,
              !.progress = NoProgress, !.inFlight = @ - 1]

\* the audio state of the App: isPlaying and what audioRef.current holds,
\* with the sources the App made
AudioCur == [isPlaying |-> isPlaying, audioContext |-> audioContext,
             audioSource |-> audioSource, playing |-> playing,
             endedQueue |-> endedQueue]

AudioSet(a) ==
    /\ isPlaying' = a.isPlaying /\ audioContext' = a.audioContext
    /\ audioSource' = a.audioSource /\ playing' = a.playing
    /\ endedQueue' = a.endedQueue

\* the message handlePlayPause sets when it cannot play
PlaybackErrorMessage == "Nepodarilo se prehrat zvuk."

\* source?.stop(): nothing for null; a source that plays stops and its ended
\* event is queued; a source that ended already stays as it is
stop(a, src) ==
    IF src # 0 /\ src \in a.playing
    THEN [a EXCEPT !.playing = @ \ {src}, !.endedQueue = @ \cup {src}]
    ELSE a

\* the cleanup of the effect on [result]: the source of audioRef is stopped
\* and the context, when there is one that is not closed, is closed, which
\* silences every source of it
cleanup(a) ==
    LET stopped == stop(a, a.audioSource)
    IN  IF stopped.audioContext = "running"
        THEN [stopped EXCEPT !.audioContext = "closed", !.playing = {}]
        ELSE stopped

\* the first branch of handlePlayPause: the source of audioRef is stopped
paused(a) == [stop(a, a.audioSource) EXCEPT !.isPlaying = FALSE]

\* line 101-103 of handlePlayPause: a context is made when there is none
\* that is open
withContext(a) == [a EXCEPT !.audioContext = "running"]

\* the names free for a new source: a source that neither plays nor waits
\* for its ended event nor is held by audioRef is gone, and its name with it
FreeSources(a) ==
    (1..MaxSources) \ (a.playing \cup a.endedQueue \cup {a.audioSource})

\* the rest of handlePlayPause after the decoding: a new source is made and
\* started, audioRef holds it, isPlaying is set
started(a) ==
    LET src == CHOOSE f \in FreeSources(a) : \A g \in FreeSources(a) : f <= g
    IN  [withContext(a) EXCEPT !.playing = @ \cup {src},
                               !.audioSource = src, !.isPlaying = TRUE]

\* source.onended: setIsPlaying(false); audioRef.current.source = null
onended(a, src) ==
    [a EXCEPT !.isPlaying = FALSE, !.audioSource = 0, !.endedQueue = @ \ {src}]

\* the locals of a settled invocation are gone: what is left of it is what
\* it settled with
Forget(s) ==
    [pc |-> s.pc, formData |-> s.formData, numScenes |-> 0, totalWords |-> 0,
     currentStep |-> 0, totalSteps |-> 0, storyData |-> NoStoryData,
     scenes |-> <<>>, story |-> <<>>, imageUrls |-> <<>>, i |-> 0,
     result |-> NoResult, error |-> s.error, events |-> <<>>, calls |-> <<>>]

\* what the awaited promise of the run in flight can settle to
RunSuccessors ==
    CASE pc = "awaitText" ->
            {AfterText(Cur, resp) : resp \in TextResponses(numScenes)}
      [] pc = "awaitPhoto" ->
            {AfterPhoto(Cur, ok) : ok \in BOOLEAN}
      [] pc = "awaitImage" ->
            {AfterImage(Cur, resp) : resp \in ContentResponses("image", i, 1)}
      [] pc = "awaitFallback" ->
            {AfterFallback(Cur, resp) : resp \in ContentResponses("image", i, 2)}
      [] pc = "awaitAudio" ->
            {AfterAudio(Cur, resp) : resp \in ContentResponses("audio", 0, 1)}
      [] OTHER -> {}

----------------------------------------------------------------------------
(* The state machine                                                       *)

Init ==
    /\ pc = "idle" /\ formData = [storyLength |-> "5"]
    /\ numScenes = 0 /\ totalWords = 0 /\ currentStep = 0 /\ totalSteps = 0
    /\ storyData = NoStoryData /\ scenes = <<>> /\ story = <<>>
    /\ imageUrls = <<>> /\ i = 0 /\ result = NoResult /\ error = NoError
    /\ events = <<>> /\ calls = <<>>
    /\ prevRun = "none"
    /\ form = InitialForm /\ childPhoto = FALSE /\ isLoading = FALSE
    /\ appResult = NoResult /\ appError = NoError /\ progress = NoProgress
    /\ timerRef = FALSE /\ inFlight = 0
    /\ isPlaying = FALSE /\ audioContext = "none" /\ audioSource = 0
    /\ playing = {} /\ endedQueue = {}

\* generateStoryWithImage is called: no run is in flight
Start ==
    /\ pc \in {"idle", "done", "failed"}
    /\ \E sl \in StoryLengths : Set(StartRun(sl))
    /\ UNCHANGED <<prevRun, appVars, audioVars>>

TextResponse ==
    /\ pc = "awaitText"
    /\ \E resp \in TextResponses(numScenes) : Set(AfterText(Cur, resp))
    /\ UNCHANGED <<prevRun, appVars, audioVars>>

PhotoRead ==
    /\ pc = "awaitPhoto"
    /\ \E ok \in BOOLEAN : Set(AfterPhoto(Cur, ok))
    /\ UNCHANGED <<prevRun, appVars, audioVars>>

ImageResponse ==
    /\ pc = "awaitImage"
    /\ \E resp \in ContentResponses("image", i, 1) : Set(AfterImage(Cur, resp))
    /\ UNCHANGED <<prevRun, appVars, audioVars>>

FallbackResponse ==
    /\ pc = "awaitFallback"
    /\ \E resp \in ContentResponses("image", i, 2) : Set(AfterFallback(Cur, resp))
    /\ UNCHANGED <<prevRun, appVars, audioVars>>

AudioResponse ==
    /\ pc = "awaitAudio"
    /\ \E resp \in ContentResponses("audio", 0, 1) : Set(AfterAudio(Cur, resp))
    /\ UNCHANGED <<prevRun, appVars, audioVars>>

Next ==
    \/ Start
    \/ TextResponse
    \/ PhotoRead
    \/ ImageResponse
    \/ FallbackResponse
    \/ AudioResponse

Spec == Init /\ [][Next]_vars

\* an awaited promise settles: the provider answers or fails, the read of
\* the photo ends
Settles ==
    \/ TextResponse
    \/ PhotoRead
    \/ ImageResponse
    \/ FallbackResponse
    \/ AudioResponse

\* the runs of Spec when every awaited promise settles in the end
SpecFair == Spec /\ WF_vars(Settles)

\* generateStoryWithImage is called, and how the invocation before it ended
\* is noted
StartAgain ==
    /\ pc \in {"idle", "done", "failed"}
    /\ \E sl \in StoryLengths : Set(StartRun(sl))
    /\ prevRun' = pc
    /\ UNCHANGED <<appVars, audioVars>>

NextRerun ==
    \/ StartAgain
    \/ TextResponse
    \/ PhotoRead
    \/ ImageResponse
    \/ FallbackResponse
    \/ AudioResponse

\* the runs of Spec, with the outcome of the previous invocation remembered
SpecRerun == Init /\ [][NextRerun]_vars

\* the user edits the name or picks one of the four story lengths
HandleInputChange ==
    /\ View = "form"
    /\ \/ \E b \in BOOLEAN : form' = [form EXCEPT !.name = b]
       \/ \E sl \in OwnKeys : form' = [form EXCEPT !.storyLength = sl]
    /\ UNCHANGED <<runVars, prevRun, childPhoto, isLoading, appResult, appError,
                   progress, timerRef, inFlight, audioVars>>

\* the user chooses a file
HandleFileChange ==
    /\ View = "form"
    /\ childPhoto' = TRUE
    /\ UNCHANGED <<runVars, prevRun, form, isLoading, appResult, appError,
                   progress, timerRef, inFlight, audioVars>>

\* the user submits the form: handleSubmit up to the first await inside
\* generateStoryWithImage
HandleSubmit ==
    /\ View = "form"
    /\ ~SubmitDisabled
    /\ IF ~childPhoto
       THEN /\ AppSet([AppCur EXCEPT !.appError = NoPhotoMessage])
            /\ UNCHANGED runVars
       ELSE LET s == StartRun(form.storyLength)
            IN  /\ Set(s)
                /\ AppSet(submitted(AppCur, s.events[Len(s.events)]))
    /\ UNCHANGED <<prevRun, audioVars>>

\* an awaited promise of the run settles: the run goes on to its next await
\* and the App sees its progress, or the run settles and handleSubmit goes on
AwaitSettles ==
    /\ inFlight > 0
    /\ \E s \in RunSuccessors :
          CASE s.pc = "done" ->
                 /\ Set(Forget(s)) /\ AppSet(resolved(AppCur, s.result))
                 /\ AudioSet(cleanup(AudioCur))
            [] s.pc = "failed" ->
                 /\ Set(Forget(s)) /\ AppSet(rejected(AppCur, s.error))
                 /\ UNCHANGED audioVars
            [] OTHER ->
                 /\ Set(s) /\ AppSet(progressed(AppCur, s.events[Len(s.events)]))
                 /\ UNCHANGED audioVars
    /\ UNCHANGED prevRun

\* the user asks for another story
HandleReset ==
    /\ View = "result"
    /\ AppSet([AppCur EXCEPT !.appResult = NoResult, !.appError = NoError,
                             !.childPhoto = FALSE, !.progress = NoProgress,
                             !.timerRef = FALSE, !.form = InitialForm])
    /\ AudioSet(cleanup([stop(AudioCur, audioSource) EXCEPT !.isPlaying = FALSE]))
    /\ UNCHANGED <<runVars, prevRun>>

NextApp ==
    \/ HandleInputChange
    \/ HandleFileChange
    \/ HandleSubmit
    \/ AwaitSettles
    \/ HandleReset

\* the App with the runs it starts
SpecApp == Init /\ [][NextApp]_vars

\* the user clicks the play button, which the result view shows when the
\* result has audio: handlePlayPause with the continuation of its await,
\* which runs before any other event is handled (decodeAudioData is an
\* async function that awaits nothing)
HandlePlayPause ==
    /\ View = "result"
    /\ appResult.audioBase64 # UndefinedData
    /\ IF isPlaying /\ audioSource # 0
       THEN /\ AudioSet(paused(AudioCur))
            /\ UNCHANGED appVars
       ELSE \/ /\ FreeSources(AudioCur) # {}
               /\ AudioSet(started(AudioCur))
               /\ UNCHANGED appVars
            \/ /\ AudioSet(withContext(AudioCur))
               /\ AppSet([AppCur EXCEPT !.appError = PlaybackErrorMessage])
    /\ UNCHANGED <<runVars, prevRun>>

\* a source plays its buffer to the end: its ended event is queued
SourceEnds ==
    /\ \E src \in playing :
          /\ playing' = playing \ {src}
          /\ endedQueue' = endedQueue \cup {src}
    /\ UNCHANGED <<runVars, prevRun, appVars, isPlaying, audioContext,
                   audioSource>>

\* the ended event of a source is delivered: its onended runs
OnEnded ==
    /\ \E src \in endedQueue : AudioSet(onended(AudioCur, src))
    /\ UNCHANGED <<runVars, prevRun, appVars>>

NextAudio ==
    \/ HandleInputChange
    \/ HandleFileChange
    \/ HandleSubmit
    \/ AwaitSettles
    \/ HandleReset
    \/ HandlePlayPause
    \/ SourceEnds
    \/ OnEnded

\* the App with its runs and its audio playback
SpecAudio == Init /\ [][NextAudio]_vars

----------------------------------------------------------------------------
(* Properties                                                              *)

LastCall == calls[Len(calls)]
LastEvent == events[Len(events)]

\* the calls of the log that ask for the image of scene idx
ImageCallsOf(idx) ==
    {k \in 1..Len(calls) : calls[k].kind = "image" /\ calls[k].scene = idx}

C2_WrongCountAborts ==
    \A k \in 1..Len(calls) :
        (calls[k].kind = "text" /\ calls[k].reply \in {"badcount", "noscenes"}) =>
            /\ pc = "failed"
            /\ error = TextGenerationError
            /\ \A m \in 1..Len(calls) : calls[m].kind \notin {"image", "audio"}

\* the text response carried one scene more than the plan of 8 asks for
C2_Witness ==
    /\ pc = "failed" /\ numScenes = 8 /\ Len(scenes) = 9
    /\ storyData.kind = "array" /\ LastCall.reply = "badcount"

\* C3: per scene, the request without the photo follows the conditioned
\* request exactly when that one returned no content parts, there are at
\* most two image requests per scene, and a fallback that returns no content
\* parts either fails the run with the image generation error as the last
\* request of the run.
C3_FallbackOnce ==
    \A k \in 1..Len(calls) :
        calls[k].kind = "image" =>
            /\ (calls[k].photo /\ calls[k].reply = "empty") =>
                  /\ k < Len(calls)
                  /\ calls[k + 1].kind = "image"
                  /\ calls[k + 1].scene = calls[k].scene
                  /\ ~calls[k + 1].photo
            /\ ~calls[k].photo =>
                  /\ k > 1
                  /\ calls[k - 1].kind = "image"
                  /\ calls[k - 1].scene = calls[k].scene
                  /\ calls[k - 1].photo
                  /\ calls[k - 1].reply = "empty"
            /\ Cardinality(ImageCallsOf(calls[k].scene)) <= 2
            /\ Cardinality({m \in ImageCallsOf(calls[k].scene) : ~calls[m].photo}) <= 1
            /\ (~calls[k].photo /\ calls[k].reply = "empty") =>
                  /\ k = Len(calls)
                  /\ pc = "failed"
                  /\ error = ImageGenerationError

\* scene 1 got its image from the fallback, scene 2 from the conditioned
\* request, and both requests of scene 3 returned no content parts
C3_Witness ==
    /\ pc = "failed" /\ error = ImageGenerationError
    /\ LastCall.kind = "image" /\ LastCall.scene = 2 /\ ~LastCall.photo
    /\ Cardinality(ImageCallsOf(0)) = 2
    /\ Cardinality(ImageCallsOf(1)) = 1

\* C4: the step of the progress events never decreases from one event to the
\* next, and the last event of a run that returned carries
\* step = totalSteps = numScenes + 2.
C4_ProgressMonotone ==
    /\ \A k \in 1..(Len(events) - 1) : events[k].step <= events[k + 1].step
    /\ pc = "done" =>
          /\ LastEvent.step = LastEvent.totalSteps
          /\ LastEvent.totalSteps = numScenes + 2

\* a run of the 8-scene plan returned after at least one advance per stage
C4_Witness ==
    /\ pc = "done" /\ numScenes = 8
    /\ LastEvent.step = 10
    /\ \E k \in 1..Len(events) : events[k].step = 0

\* C5: when all stages before it succeeded and the audio response carries no
\* audio payload, the run returns a StoryResult without audioBase64, and the
\* last progress event is the final advance.
C5_AudioOptional ==
    (calls # <<>> /\ LastCall.kind = "audio"
        /\ LastCall.reply \in {"empty", "noinline"}) =>
        /\ pc = "done"
        /\ result.returned
        /\ result.audioBase64 = UndefinedData
        /\ Len(result.imageUrls) = numScenes
        /\ LastEvent.message.id = "ready"
        /\ LastEvent.step = totalSteps

\* the audio response had content parts, none of them with inline data
C5_Witness ==
    /\ pc = "done" /\ LastCall.kind = "audio" /\ LastCall.reply = "noinline"
    /\ result.audioBase64 = UndefinedData

\* C6: a run ends with a complete StoryResult or with an error, never both,
\* and no StoryResult with fewer scenes or images than the plan is returned.
C6_NoPartialResult ==
    /\ pc = "done" => (result.returned /\ error = NoError)
    /\ pc = "failed" => (~result.returned /\ error # NoError)
    /\ result.returned =>
          /\ pc = "done"
          /\ Len(result.scenes) = numScenes
          /\ Len(result.imageUrls) = numScenes
          /\ \A k \in 1..numScenes :
                /\ result.imageUrls[k].base64 # UndefinedData
                /\ result.imageUrls[k].base64.src = "image"

\* the run failed at the fifth scene with four images already produced
C6_Witness ==
    /\ pc = "failed" /\ ~result.returned
    /\ Len(imageUrls) = 4 /\ i = 4 /\ numScenes = 6

\* the reply of a request that fails its stage
Failing(c) ==
    \/ c.kind = "text" /\ c.reply \notin {"ok", "pending"}
    \/ c.kind = "image" /\ c.reply \in {"rejected", "noinline"}
    \/ c.kind = "image" /\ ~c.photo /\ c.reply = "empty"
    \/ c.kind = "audio" /\ c.reply = "rejected"

\* C7: a request whose reply fails its stage is the last request of the run
\* and the run has failed; a failed run has no request outstanding; a failed
\* read of the photo leaves the text request the only one.
C7_FailureAborts ==
    /\ \A k \in 1..Len(calls) :
          Failing(calls[k]) => (k = Len(calls) /\ pc = "failed")
    /\ pc = "failed" => \A k \in 1..Len(calls) : calls[k].reply # "pending"
    /\ (pc = "failed" /\ error = "FileReadError") => Len(calls) = 1

\* the conditioned response of the fourth scene had content parts without
\* inline data
C7_Witness ==
    /\ pc = "failed" /\ error = ImagePayloadMissingError
    /\ LastCall.kind = "image" /\ LastCall.scene = 3 /\ LastCall.photo
    /\ LastCall.reply = "noinline"

\* C8: in a run that returned, the log is one text request, then the image
\* requests of scenes 0..N-1 in increasing order with one conditioned request
\* per scene, then one audio request, issued after the image of scene N-1
\* was stored.
C8_RequestOrder ==
    pc = "done" =>
        LET n == Len(calls)
        IN  /\ n >= numScenes + 2
            /\ calls[1].kind = "text"
            /\ calls[n].kind = "audio"
            /\ \A k \in 2..(n - 1) : calls[k].kind = "image"
            /\ calls[2].scene = 0 /\ calls[2].photo
            /\ \A k \in 2..(n - 2) :
                  \/ calls[k + 1].scene = calls[k].scene /\ ~calls[k + 1].photo
                  \/ calls[k + 1].scene = calls[k].scene + 1 /\ calls[k + 1].photo
            /\ \A idx \in 0..(numScenes - 1) :
                  Cardinality({k \in ImageCallsOf(idx) : calls[k].photo}) = 1
            /\ calls[n - 1].scene = numScenes - 1
            /\ calls[n - 1].reply = "inline"
            /\ Len(imageUrls) = numScenes

\* a run of the short plan returned with every scene illustrated at the
\* first attempt: 1 + 6 + 1 requests
C8_Witness ==
    /\ pc = "done" /\ numScenes = 6 /\ Len(calls) = 8

\* the table of the plans as documented
DocumentedPlan(sl) ==
    CASE sl = "5"  -> [scenes |-> 6,  words |-> 400]
      [] sl = "10" -> [scenes |-> 8,  words |-> 800]
      [] sl = "15" -> [scenes |-> 10, words |-> 1200]
      [] sl = "20" -> [scenes |-> 12, words |-> 1600]
      [] OTHER     -> [scenes |-> 6,  words |-> 400]

\* C9: plan resolution gives the documented plan for the four lengths and the
\* short plan for every other storyLength.
C9_PlanTable ==
    pc # "idle" =>
        /\ numScenes = DocumentedPlan(formData.storyLength).scenes
        /\ totalWords = DocumentedPlan(formData.storyLength).words

\* the number of characters of the joined story before scene j
RECURSIVE OffsetOf(_, _)
OffsetOf(arr, j) ==
    IF j = 1 THEN 0 ELSE OffsetOf(arr, j - 1) + Len(arr[j - 1]) + 2

\* C10: the story of a returned StoryResult is the scenes of the text
\* response in their order with two line breaks between consecutive scenes,
\* and its scenes are the scenes of the text response.
C10_StoryIsJoin ==
    pc = "done" =>
        LET a == storyData.items
            n == Len(a)
            st == result.story
        IN  /\ result.scenes = a
            /\ Len(st) = OffsetOf(a, n) + Len(a[n])
            /\ \A j \in 1..n :
                  SubSeq(st, OffsetOf(a, j) + 1, OffsetOf(a, j) + Len(a[j])) = a[j]
            /\ \A j \in 1..(n - 1) :
                  /\ st[OffsetOf(a, j) + Len(a[j]) + 1] = "\n"
                  /\ st[OffsetOf(a, j) + Len(a[j]) + 2] = "\n"

\* a returned story of ten scenes, some of them empty, some of one letter
C10_Witness ==
    /\ pc = "done" /\ Len(result.scenes) = 10
    /\ result.scenes[1] = <<"a">> /\ result.scenes[2] = <<>>
    /\ Len(result.story) = 5 + 18

\* C11: at most one provider request is outstanding, and it is the last one
\* issued; a request for a scene is issued only when the images of all
\* earlier scenes are stored, the audio request only when all images are.
C11_OneOutstanding ==
    /\ \A k \in 1..(Len(calls) - 1) : calls[k].reply # "pending"
    /\ Cardinality({k \in 1..Len(calls) : calls[k].reply = "pending"}) <= 1
    /\ \A k \in 1..Len(calls) :
          /\ calls[k].kind = "image" => Len(imageUrls) >= calls[k].scene
          /\ (calls[k].kind = "image" /\ calls[k].reply = "pending") =>
                Len(imageUrls) = calls[k].scene
          /\ calls[k].kind = "audio" => Len(imageUrls) = numScenes

\* the run waits for the photo-less request of its fourth scene
C11_Witness ==
    /\ pc = "awaitFallback" /\ i = 3 /\ Len(imageUrls) = 3
    /\ LastCall.reply = "pending" /\ ~LastCall.photo

\* C12: the image stored at index k comes from the last response received
\* for scene k: from the fallback when the scene had one, else from the
\* conditioned request; the returned imageUrls are these images.
C12_ImagePairsWithScene ==
    /\ \A k \in 1..Len(imageUrls) :
          /\ imageUrls[k].base64.src = "image"
          /\ imageUrls[k].base64.scene = k - 1
          /\ imageUrls[k].base64.attempt =
                (IF \E m \in ImageCallsOf(k - 1) : ~calls[m].photo THEN 2 ELSE 1)
    /\ pc = "done" => result.imageUrls = imageUrls

\* a returned run whose second scene used the fallback and whose third did not
C12_Witness ==
    /\ pc = "done" /\ numScenes = 6
    /\ result.imageUrls[2].base64.attempt = 2
    /\ result.imageUrls[3].base64.attempt = 1

\* C13: a stored image is the first inline part of its response, every
\* response with an inline part gets its image stored, and a response with
\* content parts but no inline part fails the run with the payload-missing
\* error as the last request: no fallback follows, also after the
\* conditioned request.
C13_FirstInlinePart ==
    /\ \A k \in 1..Len(imageUrls) : imageUrls[k].base64.ord = 1
    /\ \A k \in 1..Len(calls) :
          /\ (calls[k].kind = "image" /\ calls[k].reply = "inline") =>
                /\ Len(imageUrls) > calls[k].scene
                /\ imageUrls[calls[k].scene + 1].base64 =
                      Payload("image", calls[k].scene,
                              IF calls[k].photo THEN 1 ELSE 2, 1)
          /\ (calls[k].kind = "image" /\ calls[k].reply = "noinline") =>
                /\ k = Len(calls)
                /\ pc = "failed"
                /\ error = ImagePayloadMissingError

\* the first scene got its image from the fallback; the conditioned response
\* of the second scene had content parts without inline data
C13_Witness ==
    /\ pc = "failed" /\ error = ImagePayloadMissingError
    /\ LastCall.scene = 1 /\ LastCall.photo
    /\ Len(imageUrls) = 1 /\ imageUrls[1].base64.attempt = 2

\* C14: whenever a part of the audio response carries an inline payload,
\* audioBase64 is the payload of the first such part.
C14_FirstAudioPayload ==
    (pc = "done" /\ LastCall.reply \in {"inline", "inlineLater"}) =>
        result.audioBase64 = Payload("audio", 0, 1, 1)

\* the error the stage that received the last reply raises for it
RaisedError ==
    CASE LastCall.reply = "rejected" -> "ProviderError"
      [] LastCall.kind = "text" /\ LastCall.reply = "badjson" -> "SyntaxError"
      [] LastCall.kind = "text" /\ LastCall.reply = "null" -> "TypeError"
      [] LastCall.kind = "text" /\ LastCall.reply \in {"noscenes", "badcount"} ->
            TextGenerationError
      [] LastCall.kind = "text" /\ LastCall.reply = "string" ->
            IF scenes # <<>> /\ Len(scenes) = numScenes
            THEN "TypeError" ELSE TextGenerationError
      [] LastCall.kind = "text" /\ LastCall.reply = "ok" -> "FileReadError"
      [] LastCall.kind = "image" /\ LastCall.reply = "empty" -> ImageGenerationError
      [] LastCall.kind = "image" /\ LastCall.reply = "noinline" ->
            ImagePayloadMissingError
      [] OTHER -> "no stage failed"

\* C15: a failed run rejects with the very error its failing stage raised,
\* and a run that returned swallowed nothing but a missing audio payload.
C15_ErrorVerbatim ==
    /\ pc = "failed" => error = RaisedError
    /\ pc = "done" => \A k \in 1..Len(calls) : ~Failing(calls[k])

\* the text response was no JSON
C15_Witness ==
    /\ pc = "failed" /\ error = "SyntaxError" /\ LastCall.reply = "badjson"

\* C19: the events alternate between a report at the step of the event
\* before it (0 at the start) and an advance to that step plus one; a run
\* that returned delivered 2 * (numScenes + 2) events; the fallback request
\* delivers none.
C19_ReportAdvancePairs ==
    /\ \A k \in 1..Len(events) :
          LET prev == IF k = 1 THEN 0 ELSE events[k - 1].step
          IN  IF k % 2 = 1
              THEN /\ events[k].step = prev
                   /\ events[k].message.id \in {"plot", "painting", "narrating"}
              ELSE /\ events[k].step = prev + 1
                   /\ events[k].message.id \in {"written", "illustrated", "ready"}
    /\ pc = "done" => Len(events) = 2 * (numScenes + 2)
    /\ pc \in {"awaitImage", "awaitFallback"} => Len(events) = 2 * i + 3

\* the run waits for the fallback of its third scene: 7 events so far
C19_Witness ==
    /\ pc = "awaitFallback" /\ i = 2 /\ Len(events) = 7
    /\ LastEvent.message.id = "painting" /\ LastEvent.step = 3

\* C20: an event with step >= 1 is delivered only after the text response
\* was parsed and its scene count validated; a run that failed with the text
\* generation error delivered step 0 only.
C20_StepAfterValidation ==
    /\ \A k \in 1..Len(events) : events[k].step >= 1 => calls[1].reply = "ok"
    /\ (pc = "failed" /\ error = TextGenerationError) =>
          \A k \in 1..Len(events) : events[k].step = 0

\* C16: whatever the invocation before it did, an invocation starts with the
\* step counter at 0, one event at step 0, the text request as its only
\* request, no image, no result and no error.
C16_FreshRun ==
    pc = "awaitText" =>
        /\ currentStep = 0
        /\ Len(events) = 1 /\ events[1].step = 0
        /\ Len(calls) = 1 /\ calls[1].kind = "text" /\ calls[1].reply = "pending"
        /\ imageUrls = <<>> /\ i = 0
        /\ ~result.returned /\ error = NoError

\* an invocation after one that returned has just issued its text request
C16_Witness ==
    /\ pc = "awaitText" /\ prevRun = "done" /\ calls[1].scenes = 8

\* C17: the App never has two runs in flight: a run is in flight exactly
\* while isLoading is set, and then the loading view is all the user has.
C17_OneRunInFlight ==
    /\ inFlight <= 1
    /\ (inFlight = 1) = isLoading
    /\ (inFlight = 1) = (pc \in {"awaitText", "awaitPhoto", "awaitImage",
                                  "awaitFallback", "awaitAudio"})
    /\ isLoading => (View = "loading" /\ SubmitDisabled)

\* a second run of the App, started after a reset, waits for an image
C17_Witness ==
    /\ inFlight = 1 /\ pc = "awaitImage" /\ i = 1
    /\ form.storyLength = "10" /\ isLoading

\* what the App shows for a raised value: its message when it is an Error,
\* else the message for unknown errors
ShownMessage(e) == IF e = "FileReadError" THEN UnknownErrorMessage ELSE e

\* C18 as stated: after a failed run the error state is the raised error's
\* message, result is null, isLoading is false, progress is null and the
\* interval is cleared.
C18_ErrorIsRaisedMessage ==
    pc = "failed" =>
        /\ appError = error
        /\ ~appResult.returned /\ ~isLoading
        /\ progress = NoProgress /\ ~timerRef /\ inFlight = 0

\* C18 (amended): after a failed run the error state is the raised error's
\* message when the raised value is an Error and the message for unknown
\* errors when it is not; result is null, isLoading is false, progress is
\* null, the interval is cleared and the form is shown; the next run starts
\* only with a submit.
C18_FailedRunShown ==
    /\ [](pc = "failed" =>
            /\ appError = ShownMessage(error)
            /\ ~appResult.returned /\ ~isLoading
            /\ progress = NoProgress /\ ~timerRef /\ inFlight = 0
            /\ View = "form")
    /\ [][(pc = "failed" /\ pc' # "failed") => HandleSubmit]_vars

\* the read of the photo failed: the App shows the message for unknown errors
C18_Witness ==
    /\ pc = "failed" /\ error = "FileReadError"
    /\ appError = UnknownErrorMessage /\ ~isLoading /\ View = "form"

\* C21: every progress event of a run carries 0 <= step <= totalSteps and
\* the same totalSteps, the number numScenes + 2.
C21_StepWithinTotal ==
    \A k \in 1..Len(events) :
        /\ numScenes # Undefined
        /\ events[k].totalSteps # NaN
        /\ events[k].totalSteps = numScenes + 2
        /\ 0 <= events[k].step
        /\ events[k].step <= events[k].totalSteps

\* the first request of a scene: no request for the same scene precedes it
FirstOfScene(k) ==
    /\ calls[k].kind = "image"
    /\ ~(calls[k - 1].kind = "image" /\ calls[k - 1].scene = calls[k].scene)

\* C22: the first image request of every scene carries the photo, whether or
\* not an earlier scene needed the fallback; a second request for a scene
\* never carries it.
C22_ConditionedFirst ==
    \A k \in 2..Len(calls) :
        calls[k].kind = "image" => (calls[k].photo = FirstOfScene(k))

\* the first scene fell back to the request without the photo, and the
\* conditioned request of the second scene is outstanding
C22_Witness ==
    /\ pc = "awaitImage" /\ i = 1
    /\ Cardinality(ImageCallsOf(0)) = 2
    /\ LastCall.scene = 1 /\ LastCall.photo /\ LastCall.reply = "pending"

\* C23: while the run waits for an image of scene i exactly i images are
\* stored; once the loop is left without an error exactly numScenes images
\* are stored; no run fails with the image count error.
C23_LoopInvariant ==
    /\ pc \in {"awaitImage", "awaitFallback"} =>
          (Len(imageUrls) = i /\ i < numScenes /\ Len(scenes) = numScenes)
    /\ pc \in {"awaitAudio", "done"} =>
          (Len(imageUrls) = numScenes /\ i = numScenes)
    /\ error # ImageCountError

\* the loop of the ten-scene plan was left with ten images, one of them from
\* a fallback
C23_Witness ==
    /\ pc = "awaitAudio" /\ numScenes = 10 /\ Len(imageUrls) = 10 /\ i = 10
    /\ \E k \in 1..Len(calls) : calls[k].kind = "image" /\ ~calls[k].photo

\* the requests of one kind in the log
CallsOfKind(kind) == {k \in 1..Len(calls) : calls[k].kind = kind}

\* the image requests a run may issue: two per scene of its plan, none when
\* the plan has no scene count
MaxImageRequests == IF numScenes = Undefined THEN 0 ELSE 2 * numScenes

Awaiting == pc \in {"awaitText", "awaitPhoto", "awaitImage", "awaitFallback",
                     "awaitAudio"}

\* C24: when every awaited promise settles, a run that waits returns or
\* fails in the end, and it issues at most one text request, 2 * numScenes
\* image requests and one audio request.
C24_Terminates ==
    /\ [](/\ Cardinality(CallsOfKind("text")) <= 1
          /\ Cardinality(CallsOfKind("image")) <= MaxImageRequests
          /\ Cardinality(CallsOfKind("audio")) <= 1)
    /\ (Awaiting ~> (pc \in {"done", "failed"}))

\* a run of the short plan returned after every scene needed both requests:
\* 1 + 12 + 1 requests
C24_Witness ==
    /\ pc = "done" /\ numScenes = 6 /\ Len(calls) = 14
    /\ Cardinality(CallsOfKind("image")) = 12

\* C25: at most one source of the App plays at any time, and while a source
\* plays isPlaying is set and audioRef.current.source is that source.
C25_PlaybackConsistent ==
    /\ Cardinality(playing) <= 1
    /\ playing # {} => (isPlaying /\ audioSource \in playing)

====
